---- MODULE Spec2Model ----
(***************************************************************************)
(* vivaldi_bookmarks_extractor.py: a bookmark tree (JSON) is flattened     *)
(* into path-annotated records, the two timestamps of each record are      *)
(* decoded, and the records are written as CSV.                            *)
(*                                                                         *)
(* A Python str is a sequence of one-character strings, a dict is a        *)
(* function from its keys (strings) to its values, a list is a sequence.   *)
(* The empty dict, the empty list and the empty str are all <<>>; Python   *)
(* treats all three as false.                                              *)
(***************************************************************************)
EXTENDS Integers, Sequences, FiniteSets, TLC

VARIABLES
    entry,            \* the function the run enters: main, or one called directly
    pc,               \* position of the run
    input_file,       \* what the Bookmarks path holds (the run's environment)
    document,         \* the JSON value stored in the input file
    data,             \* main: data, the parsed document
    bookmarks,        \* the accumulator / record list (bookmarks, bookmarks_list)
    root_idx,         \* get_all_bookmarks: position of `for root_key in roots`
    bm_idx,           \* main: position of `for bm in bookmarks`
    output_file,      \* the CSV file: whether it was opened, and the rows written
    exit_code,        \* process exit status, -1 while the process has not exited
    node,             \* traverse_bookmarks called directly: its node argument
    path,             \* traverse_bookmarks called directly: its path argument
    webkit_timestamp, \* convert_webkit_timestamp called directly: its argument
    result            \* convert_webkit_timestamp called directly: its return value

vars == <<entry, pc, input_file, document, data, bookmarks, root_idx, bm_idx,
          output_file, exit_code, node, path, webkit_timestamp, result>>

----------------------------------------------------------------------------
(* String literals of the source *)

S_type == <<"t","y","p","e">>
S_name == <<"n","a","m","e">>
S_url == <<"u","r","l">>
S_date_added == <<"d","a","t","e","_","a","d","d","e","d">>
S_date_modified == <<"d","a","t","e","_","m","o","d","i","f","i","e","d">>
S_path == <<"p","a","t","h">>
S_children == <<"c","h","i","l","d","r","e","n">>
S_folder == <<"f","o","l","d","e","r">>
S_roots == <<"r","o","o","t","s">>
S_bookmark_bar == <<"b","o","o","k","m","a","r","k","_","b","a","r">>
S_other == <<"o","t","h","e","r">>
S_synced == <<"s","y","n","c","e","d">>
S_UnnamedFolder == <<"U","n","n","a","m","e","d"," ","F","o","l","d","e","r">>
S_UnnamedBookmark == <<"U","n","n","a","m","e","d"," ","B","o","o","k","m","a","r","k">>
S_slash == <<"/">>
S_empty == <<>>

(* dict.get(key, default) *)
Get(d, key, default) == IF key \in DOMAIN d THEN d[key] ELSE default

(* node.get('type') == t, where a missing key gives None *)
TypeIs(n, t) == S_type \in DOMAIN n /\ n[S_type] = t

(* the truth value of a dict, list or str *)
Truthy(v) == DOMAIN v # {}

----------------------------------------------------------------------------
(* traverse_bookmarks *)

(* line 40: the path handed to the children of a folder *)
current_path(n, p) ==
    IF Truthy(p) THEN p \o S_slash \o Get(n, S_name, S_UnnamedFolder)
    ELSE Get(n, S_name, S_UnnamedFolder)

(* make_bookmark without the `key != 'children'` test of line 53 *)
make_bookmark_with_children(n, p) ==
    LET bookmark == (S_name :> Get(n, S_name, S_UnnamedBookmark))
                    @@ (S_url :> Get(n, S_url, S_empty))
                    @@ (S_date_added :> Get(n, S_date_added, S_empty))
                    @@ (S_date_modified :> Get(n, S_date_modified, S_empty))
                    @@ (S_path :> p)
    IN  [key \in DOMAIN bookmark \cup DOMAIN n |->
            IF key \in DOMAIN bookmark THEN bookmark[key] ELSE n[key]]

(* lines 44-54: the record built for a URL node *)
make_bookmark(n, p) ==
    LET bookmark == (S_name :> Get(n, S_name, S_UnnamedBookmark))
                    @@ (S_url :> Get(n, S_url, S_empty))
                    @@ (S_date_added :> Get(n, S_date_added, S_empty))
                    @@ (S_date_modified :> Get(n, S_date_modified, S_empty))
                    @@ (S_path :> p)
        extra == {key \in DOMAIN n : key \notin DOMAIN bookmark /\ key # S_children}
    IN  [key \in DOMAIN bookmark \cup extra |->
            IF key \in DOMAIN bookmark THEN bookmark[key] ELSE n[key]]

(* bookmarks_list.insert(0, bookmark) in place of append *)
prepend_bookmark(bookmarks_list, bookmark) == <<bookmark>> \o bookmarks_list

(* line 55 *)
append_bookmark(bookmarks_list, bookmark) == Append(bookmarks_list, bookmark)

RECURSIVE traverse_bookmarks(_, _, _), traverse_children(_, _, _, _)

(* traverse_bookmarks descending into every node that is no URL entry *)
traverse_any_type(n, bookmarks_list, p) ==
    IF TypeIs(n, S_url)
    THEN append_bookmark(bookmarks_list, make_bookmark(n, p))
    ELSE traverse_children(Get(n, S_children, <<>>), 1, bookmarks_list, current_path(n, p))

(* lines 38-55; the value is bookmarks_list after the call *)
traverse_bookmarks(n, bookmarks_list, p) ==
    IF TypeIs(n, S_folder)
    THEN traverse_children(Get(n, S_children, <<>>), 1, bookmarks_list, current_path(n, p))
    ELSE IF TypeIs(n, S_url)
    THEN append_bookmark(bookmarks_list, make_bookmark(n, p))
    ELSE bookmarks_list

(* lines 41-42: the loop over the children, from child i on *)
traverse_children(children, i, bookmarks_list, p) ==
    IF i > Len(children) THEN bookmarks_list
    ELSE traverse_children(children, i + 1,
                           traverse_bookmarks(children[i], bookmarks_list, p), p)

----------------------------------------------------------------------------
(* convert_webkit_timestamp *)

Digits == <<"0","1","2","3","4","5","6","7","8","9">>

IsDigit(c) == \E d \in 1..10 : Digits[d] = c

DigitValue(c) == (CHOOSE d \in 1..10 : Digits[d] = c) - 1

Min(a, b) == IF a < b THEN a ELSE b

(* str.strip() as int() applies it: leading and trailing whitespace removed *)
RECURSIVE strip(_)
strip(s) ==
    IF s = <<>> THEN s
    ELSE IF Head(s) = " " THEN strip(Tail(s))
    ELSE IF s[Len(s)] = " " THEN strip(SubSeq(s, 1, Len(s) - 1))
    ELSE s

(* the digits of an int literal: one or more digits, single underscores
   allowed between two digits only *)
ValidDigits(body) ==
    /\ body # <<>>
    /\ \A i \in 1..Len(body) :
          \/ IsDigit(body[i])
          \/ /\ body[i] = "_"
             /\ 1 < i /\ i < Len(body)
             /\ IsDigit(body[i - 1]) /\ IsDigit(body[i + 1])

(* line 120, int(webkit_timestamp): ok is FALSE where int() raises ValueError;
   the value is kept as its sign and its decimal digits *)
int_parse(s) ==
    LET t == strip(s)
        signed == t # <<>> /\ Head(t) \in {"+", "-"}
        body == IF signed THEN Tail(t) ELSE t
    IN  IF ValidDigits(body)
        THEN [ok |-> TRUE, negative |-> signed /\ Head(t) = "-",
              digits |-> SelectSeq(body, IsDigit)]
        ELSE [ok |-> FALSE, negative |-> FALSE, digits |-> <<>>]

(* 1_000_000 of line 122 has six zeros: dividing by it cuts six digits off *)
MicrosecondDigits == 6

SecondsPerDay == 86400

(* datetime.datetime(1601, 1, 1).toordinal(), line 124 *)
EpochOrdinal == 584389

(* datetime.max.toordinal(): past it line 125 raises OverflowError *)
MaxOrdinal == 3652059

(* value of a short digit sequence *)
RECURSIVE DigitsValue(_, _)
DigitsValue(ds, acc) ==
    IF ds = <<>> THEN acc ELSE DigitsValue(Tail(ds), acc * 10 + DigitValue(Head(ds)))

(* long division of a digit sequence by SecondsPerDay; the quotient
   saturates past MaxOrdinal, where the date is out of range anyway *)
RECURSIVE DivideByDay(_, _, _)
DivideByDay(ds, q, r) ==
    IF ds = <<>> THEN [q |-> q, r |-> r]
    ELSE LET x == r * 10 + DigitValue(Head(ds))
         IN  DivideByDay(Tail(ds),
                         Min(q * 10 + (x \div SecondsPerDay), MaxOrdinal + 1),
                         x % SecondsPerDay)

(* lines 122-125: timedelta(seconds=timestamp_int / 1_000_000), normalised by
   timedelta to whole days and a second of the day (the microseconds play no
   part in the rendering but push a negative value down to the second below) *)
timedelta_of(parsed) ==
    LET ds == parsed.digits
        k == Len(ds)
        whole == IF k > MicrosecondDigits THEN SubSeq(ds, 1, k - MicrosecondDigits) ELSE <<>>
        micro == DigitsValue(IF k > MicrosecondDigits
                             THEN SubSeq(ds, k - MicrosecondDigits + 1, k) ELSE ds, 0)
        d == DivideByDay(whole, 0, 0)
        t == d.r + (IF micro > 0 THEN 1 ELSE 0)
    IN  IF ~parsed.negative THEN [days |-> d.q, seconds |-> d.r]
        ELSE IF t = 0 THEN [days |-> 0 - d.q, seconds |-> 0]
        ELSE IF t = SecondsPerDay THEN [days |-> 0 - d.q - 1, seconds |-> 0]
        ELSE [days |-> 0 - d.q - 1, seconds |-> SecondsPerDay - t]

DaysBeforeMonth == <<0, 31, 59, 90, 120, 151, 181, 212, 243, 273, 304, 334>>
DaysInMonth == <<31, 28, 31, 30, 31, 30, 31, 31, 30, 31, 30, 31>>

(* datetime's ordinal -> (year, month, day), as date.fromordinal computes it *)
ord2ymd(ordinal) ==
    LET n0 == ordinal - 1
        n400 == n0 \div 146097
        r400 == n0 % 146097
        n100 == r400 \div 36524
        r100 == r400 % 36524
        n4 == r100 \div 1461
        r4 == r100 % 1461
        n1 == r4 \div 365
        n == r4 % 365
        year == n400 * 400 + 1 + n100 * 100 + n4 * 4 + n1
        leapyear == n1 = 3 /\ (n4 # 24 \/ n100 = 3)
        leap(m) == IF m > 2 /\ leapyear THEN 1 ELSE 0
        month0 == (n + 50) \div 32
        before0 == DaysBeforeMonth[month0] + leap(month0)
        month == IF before0 > n THEN month0 - 1 ELSE month0
        before == IF before0 > n
                  THEN before0 - (DaysInMonth[month]
                                  + (IF month = 2 /\ leapyear THEN 1 ELSE 0))
                  ELSE before0
    IN  IF n1 = 4 \/ n100 = 4
        THEN [year |-> year - 1, month |-> 12, day |-> 31]
        ELSE [year |-> year, month |-> month, day |-> n - before + 1]

(* a number as `width` zero-padded decimal digits *)
RECURSIVE zero_padded(_, _)
zero_padded(v, width) ==
    IF width = 0 THEN <<>> ELSE zero_padded(v \div 10, width - 1) \o <<Digits[(v % 10) + 1]>>

(* line 126: strftime('%Y-%m-%d %H:%M:%S') *)
strftime(ymd, seconds) ==
    zero_padded(ymd.year, 4) \o <<"-">> \o zero_padded(ymd.month, 2) \o <<"-">>
    \o zero_padded(ymd.day, 2) \o <<" ">>
    \o zero_padded(seconds \div 3600, 2) \o <<":">>
    \o zero_padded((seconds % 3600) \div 60, 2) \o <<":">>
    \o zero_padded(seconds % 60, 2)

(* convert_webkit_timestamp returning '' where the conversion fails *)
convert_or_empty(s) ==
    LET parsed == int_parse(s)
        delta == timedelta_of(parsed)
        ordinal == EpochOrdinal + delta.days
    IN  IF ~parsed.ok \/ ordinal < 1 \/ ordinal > MaxOrdinal THEN S_empty
        ELSE strftime(ord2ymd(ordinal), delta.seconds)

(* lines 119-128 *)
convert_webkit_timestamp(s) ==
    LET parsed == int_parse(s)
    IN  IF ~parsed.ok THEN s            \* ValueError, caught at line 127
        ELSE LET delta == timedelta_of(parsed)
                 ordinal == EpochOrdinal + delta.days
             IN  IF ordinal < 1 \/ ordinal > MaxOrdinal
                 THEN s                 \* OverflowError, caught at line 127
                 ELSE strftime(ord2ymd(ordinal), delta.seconds)

----------------------------------------------------------------------------
(* export_to_csv *)

(* the characters of the model in code point order: str comparison, which
   sorted() of line 98 uses, compares code points *)
CodePointOrder ==
    <<" ", "+", "-", ".", "/", "0", "1", "2", "3", "4", "5", "6", "7", "8", "9", ":",
      "A", "B", "C", "D", "E", "F", "G", "H", "I", "J", "K", "L", "M", "N", "O", "P",
      "Q", "R", "S", "T", "U", "V", "W", "X", "Y", "Z", "_",
      "a", "b", "c", "d", "e", "f", "g", "h", "i", "j", "k", "l", "m", "n", "o", "p",
      "q", "r", "s", "t", "u", "v", "w", "x", "y", "z">>

ord(c) == CHOOSE i \in 1..Len(CodePointOrder) : CodePointOrder[i] = c

(* a < b on str *)
RECURSIVE str_lt(_, _)
str_lt(a, b) ==
    IF b = <<>> THEN FALSE
    ELSE IF a = <<>> THEN TRUE
    ELSE IF Head(a) = Head(b) THEN str_lt(Tail(a), Tail(b))
    ELSE ord(Head(a)) < ord(Head(b))

(* line 98: sorted(headers) *)
RECURSIVE sorted(_)
sorted(keys) ==
    IF keys = {} THEN <<>>
    ELSE LET first == CHOOSE k \in keys : \A other \in keys \ {k} : str_lt(k, other)
         IN  <<first>> \o sorted(keys \ {first})

(* the columns taken from the first record alone *)
headers_of_first(bms) == sorted(DOMAIN bms[1])

(* lines 95-98 *)
headers_of(bms) == sorted(UNION {DOMAIN bms[i] : i \in 1..Len(bms)})

(* line 105, DictWriter.writerow: the fields of a record in header order,
   restval '' where the record lacks the column *)
writerow(bm, headers) == [h \in 1..Len(headers) |-> Get(bm, headers[h], S_empty)]

(* lines 103-105: the header row, then one row per record *)
csv_rows(bms) ==
    LET headers == headers_of(bms)
    IN  <<headers>> \o [i \in 1..Len(bms) |-> writerow(bms[i], headers)]

----------------------------------------------------------------------------
(* The inputs of the runs *)

MaxNodes == 3        \* nodes of a document's bookmark trees, all roots together
MaxRecords == 3      \* records handed to export_to_csv when it is called directly
MaxTimestampLen == 3 \* length of the generated timestamp strings

S_separator == <<"s","e","p","a","r","a","t","o","r">>
S_tags == <<"t","a","g","s">>
S_trash == <<"t","r","a","s","h">>
S_version == <<"v","e","r","s","i","o","n">>
S_not_a_number == <<"n","o","t","_","a","_","n","u","m","b","e","r">>

Letters == <<"A", "B", "C", "D", "E", "F", "G", "H">>

(* two URL entries: a complete one, and one that lacks name, url and
   date_modified, has a malformed date_added and carries an extra key *)
UrlX == (S_type :> S_url) @@ (S_name :> <<"x">>) @@ (S_url :> <<"u">>)
        @@ (S_date_added :> <<"0">>)
        @@ (S_date_modified :> <<"8","6","4","0","0","0","0","0","0","0","0">>)
UrlY == (S_type :> S_url) @@ (S_date_added :> S_not_a_number) @@ (S_tags :> <<"t">>)

Folder(depth, kids) ==
    (S_type :> S_folder) @@ (S_name :> <<Letters[depth + 1]>>) @@ (S_children :> kids)
UnnamedFolder(kids) == (S_type :> S_folder) @@ (S_children :> kids)
ChildlessFolder == (S_type :> S_folder) @@ (S_name :> <<"Z">>)

(* a node of another type and a node without type, each with a subtree that
   holds a URL entry *)
Separator ==
    (S_type :> S_separator) @@ (S_name :> <<"S">>) @@ (S_children :> <<UrlX>>)
Untyped == (S_name :> <<"N">>) @@ (S_children :> <<Folder(7, <<UrlY>>)>>)

(* Trees(n, depth): the bookmark trees of n nodes (the subtree of a node that
   is neither folder nor URL not counted) whose root lies at `depth` below a
   root of the document; Forests(n, depth): the child lists of n nodes *)
RECURSIVE Trees(_, _), Forests(_, _)
Trees(n, depth) ==
    (IF n = 1 THEN {UrlX, UrlY, Separator, Untyped} ELSE {})
    \cup {Folder(depth, kids) : kids \in Forests(n - 1, depth + 1)}
    \cup (IF depth = 1
          THEN {UnnamedFolder(kids) : kids \in Forests(n - 1, depth + 1)}
          ELSE {})
Forests(n, depth) ==
    IF n = 0 THEN {<<>>}
    ELSE UNION {LET first == Trees(k, depth)
                    others == Forests(n - k, depth)
                IN  {<<t>> \o rest : t \in first, rest \in others}
                : k \in 1..n}

(* the trees a root key can hold: those above, a folder without a children
   key, and a folder without name *)
RootTrees(n) ==
    Trees(n, 0)
    \cup (IF n = 1 THEN {ChildlessFolder} ELSE {})
    \cup {UnnamedFolder(kids) : kids \in Forests(n - 1, 1)}

(* what a document holds under one key of roots: nothing (0 nodes), an empty
   object, or a tree of n nodes *)
Slots(n) ==
    IF n = 0 THEN {[kind |-> "absent", tree |-> UrlX]}
    ELSE (IF n = 1 THEN {[kind |-> "empty", tree |-> UrlX]} ELSE {})
         \cup {[kind |-> "tree", tree |-> t] : t \in RootTrees(n)}

SlotsOfSize == [n \in 0..MaxNodes |-> Slots(n)]

(* what a document holds under a key of roots that get_all_bookmarks does
   not know *)
TrashSlots == {[kind |-> "absent", tree |-> UrlX], [kind |-> "tree", tree |-> UrlX]}

RootKeys == <<S_bookmark_bar, S_other, S_synced, S_trash>>

RootsMapping(slots) ==
    [key \in {RootKeys[k] : k \in {j \in 1..Len(slots) : slots[j].kind # "absent"}} |->
        LET slot == slots[CHOOSE k \in 1..Len(slots) : RootKeys[k] = key]
        IN  IF slot.kind = "empty" THEN <<>> ELSE slot.tree]

(* a document with a roots mapping, and the one without *)
DocumentOf(slots) == (S_version :> <<"1">>) @@ (S_roots :> RootsMapping(slots))
DocumentWithoutRoots == (S_version :> <<"1">>)

(* the document is an object whose roots hold at most MaxNodes nodes *)
IsDocument(doc) ==
    \/ doc = DocumentWithoutRoots
    \/ \E n1 \in 0..MaxNodes : \E s1 \in SlotsOfSize[n1] :
       \E n2 \in 0..(MaxNodes - n1) : \E s2 \in SlotsOfSize[n2] :
       \E n3 \in 0..(MaxNodes - n1 - n2) : \E s3 \in SlotsOfSize[n3] :
       \E s4 \in TrashSlots :
          doc = DocumentOf(<<s1, s2, s3, s4>>)

(* URL nodes with every choice of keys *)
OptionalKeys == {S_name, S_url, S_date_added, S_date_modified, S_path, S_children, S_tags}

UrlNodeValue(key) ==
    IF key = S_name THEN <<"x">>
    ELSE IF key = S_url THEN <<"u">>
    ELSE IF key = S_date_added THEN <<"0">>
    ELSE IF key = S_date_modified THEN S_not_a_number
    ELSE IF key = S_path THEN <<"P">>
    ELSE IF key = S_children THEN <<UrlX>>
    ELSE <<"t">>

UrlNodeWith(keys) ==
    [key \in {S_type} \cup keys |-> IF key = S_type THEN S_url ELSE UrlNodeValue(key)]

(* traverse_bookmarks called directly: its arguments *)
IsNodeArgument(n) ==
    \/ \E keys \in SUBSET OptionalKeys : n = UrlNodeWith(keys)
    \/ \E size \in 1..MaxNodes : \E t \in Trees(size, 1) : n = t

PathArguments == {<<>>, <<"A">>, <<"A", "/", "B">>}

AccumulatorArguments == {<<>>, <<make_bookmark(UrlY, <<"Q">>)>>}

(* export_to_csv called directly: records with differing key sets *)
RecordPool ==
    { (<<"a">> :> <<"1">>) @@ (<<"b">> :> <<"2">>),
      (<<"a">> :> <<"3">>) @@ (<<"c">> :> <<"4">>),
      (<<"B">> :> <<"5">>) @@ (<<"a", "b">> :> <<>>),
      make_bookmark(UrlY, <<"A">>) }

IsRecordList(bms) == \E len \in 0..MaxRecords : bms \in [1..len -> RecordPool]

(* convert_webkit_timestamp called directly: short strings over a few
   characters, and some long ones *)
TimestampChars == {"0", "1", "9", "-", "+", "_", " ", "a"}

T_2022 == <<"1","3","3","0","0","0","0","0","0","0","0","9","9","9","9","9","9">>
T_too_large == <<"9","9","9","9","9","9","9","9","9","9","9","9","9","9","9","9","9","9","9","9","9">>

LongTimestamps ==
    { S_not_a_number,
      <<"1","2",".","5">>,
      <<"1","0","0","0","0","0","0">>,
      <<"-","1","0","0","0","0","0","0">>,
      <<"8","6","3","9","9","9","9","9","9","9","9">>,
      <<"8","6","4","0","0","0","0","0","0","0","0">>,
      <<"9","9","7","9","1","9","9","9","9","9","9","9","9","9">>,
      <<"3","1","2","9","2","3","5","1","9","9","9","9","9","9","9","9">>,
      <<"3","1","2","9","2","3","5","2","0","0","0","0","0","0","0","0">>,
      <<"1","2","5","9","6","2","9","9","2","0","0","0","0","0","0","0","0">>,
      T_2022,
      <<"1","_","3","3","0","0","_","0","0","0","0","0","0","_","9","9","9","9","9","9">>,
      <<" ","+","1","3","3","0","0","0","0","0","0","0","0","9","9","9","9","9","9"," ">>,
      <<"-","1","8","5","0","0","0","0","0","0","0","0","0","0","0","0","0","0">>,
      <<"2","6","5","0","4","6","7","7","4","3","9","9","0","0","0","0","0","0">>,
      <<"2","6","5","0","4","6","7","7","4","4","0","0","0","0","0","0","0","0">>,
      <<"-","5","0","5","0","0","0","0","0","0","0","0","0","0","0","0","0","0">>,
      T_too_large }

IsTimestampArgument(ts) ==
    \/ ts \in LongTimestamps
    \/ \E len \in 0..MaxTimestampLen : ts \in [1..len -> TimestampChars]

----------------------------------------------------------------------------
(* The runs *)

NotExited == -1

NoFile == [opened |-> FALSE, rows |-> <<>>]

(* what the Bookmarks path can hold when main starts *)
InputFiles == {"missing", "removed", "unreadable", "invalid_json", "non_object", "document"}

InitMain ==
    /\ entry = "main" /\ pc = "main"
    /\ input_file \in InputFiles
    /\ IF input_file = "document" THEN IsDocument(document) ELSE document = <<>>
    /\ bookmarks = <<>>
    /\ node = <<>> /\ path = <<>> /\ webkit_timestamp = <<>>

InitTraverse ==
    /\ entry = "traverse_bookmarks" /\ pc = "call"
    /\ input_file = "missing" /\ document = <<>>
    /\ IsNodeArgument(node) /\ path \in PathArguments
    /\ bookmarks \in AccumulatorArguments
    /\ webkit_timestamp = <<>>

InitExport ==
    /\ entry = "export_to_csv" /\ pc = "export"
    /\ input_file = "missing" /\ document = <<>>
    /\ IsRecordList(bookmarks)
    /\ node = <<>> /\ path = <<>> /\ webkit_timestamp = <<>>

InitConvert ==
    /\ entry = "convert_webkit_timestamp" /\ pc = "call"
    /\ input_file = "missing" /\ document = <<>>
    /\ bookmarks = <<>>
    /\ node = <<>> /\ path = <<>>
    /\ IsTimestampArgument(webkit_timestamp)

Init ==
    /\ InitMain \/ InitTraverse \/ InitExport \/ InitConvert
    /\ data = <<>> /\ root_idx = 0 /\ bm_idx = 0
    /\ output_file = NoFile /\ exit_code = NotExited
    /\ result = <<>>

(* sys.exit(code), or the interpreter ending on an uncaught exception *)
Exit(code) == pc' = "exited" /\ exit_code' = code

(* main, lines 135-137 *)
main_check_path ==
    /\ entry = "main" /\ pc = "main"
    /\ IF input_file = "missing" THEN Exit(1)
       ELSE pc' = "load_bookmarks" /\ UNCHANGED exit_code
    /\ UNCHANGED <<entry, input_file, document, data, bookmarks, root_idx, bm_idx,
                   output_file, node, path, webkit_timestamp, result>>

(* load_bookmarks, lines 16-28: open() raises FileNotFoundError when the
   file went away after line 135 looked, another exception when it cannot be
   read; json.load raises JSONDecodeError; each handler exits with 1 *)
load_bookmarks ==
    /\ pc = "load_bookmarks"
    /\ IF input_file \in {"removed", "unreadable", "invalid_json"}
       THEN Exit(1) /\ UNCHANGED data
       ELSE data' = document /\ pc' = "get_all_bookmarks" /\ UNCHANGED exit_code
    /\ UNCHANGED <<entry, input_file, document, bookmarks, root_idx, bm_idx,
                   output_file, node, path, webkit_timestamp, result>>

roots == <<S_bookmark_bar, S_other, S_synced>>

(* line 69 *)
roots_data == Get(data, S_roots, <<>>)

(* get_all_bookmarks, lines 65-72; on a JSON value that is no object,
   data.get raises AttributeError, which nothing catches *)
get_all_bookmarks_begin ==
    /\ pc = "get_all_bookmarks"
    /\ IF input_file = "non_object"
       THEN Exit(1) /\ UNCHANGED <<bookmarks, root_idx>>
       ELSE /\ bookmarks' = <<>>
            /\ IF ~Truthy(roots_data)
               THEN pc' = "main_check_empty" /\ UNCHANGED root_idx
               ELSE pc' = "for_root_key" /\ root_idx' = 1
            /\ UNCHANGED exit_code
    /\ UNCHANGED <<entry, input_file, document, data, bm_idx,
                   output_file, node, path, webkit_timestamp, result>>

(* collect_root starting every root with a fresh list *)
collect_root_fresh_list(root_key, bms) ==
    LET root == Get(roots_data, root_key, <<>>)
    IN  IF ~Truthy(root) THEN bms
        ELSE traverse_bookmarks(root, <<>>, Get(root, S_name, root_key))

(* lines 75-79: one pass of the loop body; the value is bookmarks after it *)
collect_root(root_key, bms) ==
    LET root == Get(roots_data, root_key, <<>>)
    IN  IF ~Truthy(root) THEN bms
        ELSE traverse_bookmarks(root, bms, Get(root, S_name, root_key))

(* lines 74-79 *)
get_all_bookmarks_loop ==
    /\ pc = "for_root_key" /\ root_idx <= Len(roots)
    /\ bookmarks' = collect_root(roots[root_idx], bookmarks)
    /\ root_idx' = root_idx + 1
    /\ UNCHANGED <<entry, pc, input_file, document, data, bm_idx,
                   output_file, exit_code, node, path, webkit_timestamp, result>>

(* line 81 *)
get_all_bookmarks_return ==
    /\ pc = "for_root_key" /\ root_idx > Len(roots)
    /\ pc' = "main_check_empty"
    /\ UNCHANGED <<entry, input_file, document, data, bookmarks, root_idx, bm_idx,
                   output_file, exit_code, node, path, webkit_timestamp, result>>

(* main, lines 143-145 *)
main_check_empty ==
    /\ pc = "main_check_empty"
    /\ IF bookmarks = <<>> THEN Exit(0) /\ UNCHANGED bm_idx
       ELSE pc' = "for_bm" /\ bm_idx' = 1 /\ UNCHANGED exit_code
    /\ UNCHANGED <<entry, input_file, document, data, bookmarks, root_idx,
                   output_file, node, path, webkit_timestamp, result>>

(* decode_record without line 150 *)
decode_record_added_only(bm) ==
    (S_date_added :> convert_webkit_timestamp(Get(bm, S_date_added, S_empty))) @@ bm

(* lines 149-150: both timestamps of one record *)
decode_record(bm) ==
    (S_date_added :> convert_webkit_timestamp(Get(bm, S_date_added, S_empty)))
    @@ (S_date_modified :> convert_webkit_timestamp(Get(bm, S_date_modified, S_empty)))
    @@ bm

(* main, lines 148-150: one pass of the loop *)
main_decode ==
    /\ pc = "for_bm" /\ bm_idx <= Len(bookmarks)
    /\ bookmarks' = [bookmarks EXCEPT ![bm_idx] = decode_record(@)]
    /\ bm_idx' = bm_idx + 1
    /\ UNCHANGED <<entry, pc, input_file, document, data, root_idx,
                   output_file, exit_code, node, path, webkit_timestamp, result>>

(* main, lines 152-157: the loop is over, export_to_csv is called *)
main_call_export ==
    /\ pc = "for_bm" /\ bm_idx > Len(bookmarks)
    /\ pc' = "export"
    /\ UNCHANGED <<entry, input_file, document, data, bookmarks, root_idx, bm_idx,
                   output_file, exit_code, node, path, webkit_timestamp, result>>

(* export_to_csv without the test of line 90: the file is opened and, there
   being no record and no key, an empty header row written *)
export_nothing_opens ==
    /\ pc = "export" /\ bookmarks = <<>>
    /\ output_file' = [opened |-> TRUE, rows |-> <<<<>>>>]
    /\ pc' = "exported"
    /\ UNCHANGED <<entry, input_file, document, data, bookmarks, root_idx, bm_idx,
                   exit_code, node, path, webkit_timestamp, result>>

(* export_to_csv, lines 90-92 *)
export_nothing ==
    /\ pc = "export" /\ bookmarks = <<>>
    /\ pc' = "exported"
    /\ UNCHANGED <<entry, input_file, document, data, bookmarks, root_idx, bm_idx,
                   output_file, exit_code, node, path, webkit_timestamp, result>>

(* DictWriter.writerow raises ValueError on a record with a key that is no
   column (extrasaction is 'raise') *)
wrong_fields(bm, headers) == DOMAIN bm \ {headers[h] : h \in 1..Len(headers)}

(* lines 104-105 get through the first `count` records without ValueError *)
writable(bms, count) ==
    \A i \in 1..count : wrong_fields(bms[i], headers_of(bms)) = {}

(* export_to_csv, lines 94-106: the file is opened and every row written *)
export_written ==
    /\ pc = "export" /\ bookmarks # <<>>
    /\ writable(bookmarks, Len(bookmarks))
    /\ output_file' = [opened |-> TRUE, rows |-> csv_rows(bookmarks)]
    /\ pc' = "exported"
    /\ UNCHANGED <<entry, input_file, document, data, bookmarks, root_idx, bm_idx,
                   exit_code, node, path, webkit_timestamp, result>>

(* export_to_csv, lines 101 and 107-109: open() raises *)
export_open_fails ==
    /\ pc = "export" /\ bookmarks # <<>>
    /\ Exit(1)
    /\ UNCHANGED <<entry, input_file, document, data, bookmarks, root_idx, bm_idx,
                   output_file, node, path, webkit_timestamp, result>>

(* export_to_csv, lines 103-109: a write raises after `written` rows *)
export_write_fails ==
    /\ pc = "export" /\ bookmarks # <<>>
    /\ \E written \in 0..Len(bookmarks) :
          /\ writable(bookmarks, written - 1)
          /\ output_file' = [opened |-> TRUE,
                             rows |-> SubSeq(csv_rows(bookmarks), 1, written)]
    /\ Exit(1)
    /\ UNCHANGED <<entry, input_file, document, data, bookmarks, root_idx, bm_idx,
                   node, path, webkit_timestamp, result>>

(* main returns after line 157 and the process ends with status 0 *)
main_return ==
    /\ entry = "main" /\ pc = "exported"
    /\ Exit(0)
    /\ UNCHANGED <<entry, input_file, document, data, bookmarks, root_idx, bm_idx,
                   output_file, node, path, webkit_timestamp, result>>

(* traverse_bookmarks(node, bookmarks_list, path) called directly *)
call_traverse_bookmarks ==
    /\ entry = "traverse_bookmarks" /\ pc = "call"
    /\ bookmarks' = traverse_bookmarks(node, bookmarks, path)
    /\ pc' = "returned"
    /\ UNCHANGED <<entry, input_file, document, data, root_idx, bm_idx,
                   output_file, exit_code, node, path, webkit_timestamp, result>>

(* convert_webkit_timestamp(webkit_timestamp) called directly *)
call_convert_webkit_timestamp ==
    /\ entry = "convert_webkit_timestamp" /\ pc = "call"
    /\ result' = convert_webkit_timestamp(webkit_timestamp)
    /\ pc' = "returned"
    /\ UNCHANGED <<entry, input_file, document, data, bookmarks, root_idx, bm_idx,
                   output_file, exit_code, node, path, webkit_timestamp>>

Next ==
    \/ main_check_path
    \/ load_bookmarks
    \/ get_all_bookmarks_begin
    \/ get_all_bookmarks_loop
    \/ get_all_bookmarks_return
    \/ main_check_empty
    \/ main_decode
    \/ main_call_export
    \/ export_nothing
    \/ export_written
    \/ export_open_fails
    \/ export_write_fails
    \/ main_return
    \/ call_traverse_bookmarks
    \/ call_convert_webkit_timestamp

Spec == Init /\ [][Next]_vars

----------------------------------------------------------------------------
(* The claims *)

(* get_all_bookmarks has returned to main, which holds its value in bookmarks *)
Collected == entry = "main" /\ pc = "main_check_empty"

KnownRootKeys == <<S_bookmark_bar, S_other, S_synced>>

HasRoot(root_key) == root_key \in DOMAIN roots_data

RECURSIVE Concat(_)
Concat(seqs) == IF seqs = <<>> THEN <<>> ELSE Head(seqs) \o Concat(Tail(seqs))

(* the names of the folders above each URL entry of a tree, one list of
   names per entry, in depth-first child order; `default` names a folder
   that has no name *)
RECURSIVE AncestorNames(_, _, _)
AncestorNames(n, above, default) ==
    IF TypeIs(n, S_folder)
    THEN LET kids == Get(n, S_children, <<>>)
             here == Append(above, Get(n, S_name, default))
         IN  Concat([i \in 1..Len(kids) |-> AncestorNames(kids[i], here, S_UnnamedFolder)])
    ELSE IF TypeIs(n, S_url) THEN <<above>>
    ELSE <<>>

RECURSIVE JoinBySlash(_)
JoinBySlash(names) ==
    IF names = <<>> THEN <<>>
    ELSE IF Len(names) = 1 THEN names[1]
    ELSE names[1] \o S_slash \o JoinBySlash(Tail(names))

ExpectedPaths ==
    Concat([k \in 1..Len(KnownRootKeys) |->
        IF HasRoot(KnownRootKeys[k])
        THEN LET found == AncestorNames(roots_data[KnownRootKeys[k]], <<>>, KnownRootKeys[k])
             IN  [i \in 1..Len(found) |-> JoinBySlash(found[i])]
        ELSE <<>>])

(* C1: every record get_all_bookmarks returns has as path the names of the
   folders above its URL entry, from the root folder down to the folder that
   holds the entry, joined by "/" (A > B > C gives "A/B/C"); stated for the
   documents whose roots are all named folders. *)
C1_PathIsAncestorNames ==
    (/\ Collected
     /\ \A key \in DOMAIN roots_data :
            TypeIs(roots_data[key], S_folder) /\ S_name \in DOMAIN roots_data[key]) =>
        /\ Len(bookmarks) = Len(ExpectedPaths)
        /\ \A i \in 1..Len(bookmarks) : bookmarks[i][S_path] = ExpectedPaths[i]

(* the depth-first, child-order flattening of the root under root_key,
   started with the root's name, or the key where it has none *)
FlatteningOf(mapping, root_key) ==
    IF root_key \in DOMAIN mapping
    THEN traverse_bookmarks(mapping[root_key], <<>>, Get(mapping[root_key], S_name, root_key))
    ELSE <<>>

FlatteningOfRoots(mapping) ==
    FlatteningOf(mapping, S_bookmark_bar) \o FlatteningOf(mapping, S_other)
    \o FlatteningOf(mapping, S_synced)

(* C2: the sequence get_all_bookmarks returns is the flattening of
   bookmark_bar, then that of other, then that of synced, each root that is
   absent contributing nothing, and no other key of roots contributing. *)
C2_RootsInFixedOrder == Collected => bookmarks = FlatteningOfRoots(roots_data)

C2_Witness ==
    /\ Collected
    /\ ~HasRoot(S_bookmark_bar) /\ HasRoot(S_trash)
    /\ FlatteningOf(roots_data, S_other) # <<>>
    /\ FlatteningOf(roots_data, S_synced) # <<>>
    /\ FlatteningOf(roots_data, S_other) # FlatteningOf(roots_data, S_synced)

IsKnownType(n) == TypeIs(n, S_folder) \/ TypeIs(n, S_url)

(* a tree without the nodes that are neither folder nor URL entry *)
RECURSIVE Pruned(_)
Pruned(n) ==
    IF TypeIs(n, S_folder) /\ S_children \in DOMAIN n
    THEN LET kids == SelectSeq(n[S_children], IsKnownType)
         IN  [n EXCEPT ![S_children] = [i \in 1..Len(kids) |-> Pruned(kids[i])]]
    ELSE n

PrunedRoots(mapping) ==
    [key \in {k \in DOMAIN mapping : IsKnownType(mapping[k])} |-> Pruned(mapping[key])]

HasDroppedNode(n) ==
    /\ TypeIs(n, S_folder)
    /\ \E i \in DOMAIN Get(n, S_children, <<>>) :
          LET kid == n[S_children][i]
          IN  ~IsKnownType(kid) /\ Get(kid, S_children, <<>>) # <<>>

(* C7: a node that is neither folder nor URL entry, at a root or below,
   gives no record and neither does anything under it; the run goes on and
   the other records are those of the document without that node. *)
C7_OtherTypesDropped ==
    /\ Collected => bookmarks = FlatteningOfRoots(PrunedRoots(roots_data))
    /\ (entry = "main" /\ input_file = "document" /\ pc = "exited" /\ exit_code # 0)
           => bm_idx > 0

C7_Witness ==
    /\ Collected
    /\ bookmarks # <<>>
    /\ \E key \in DOMAIN roots_data : HasDroppedNode(roots_data[key])

(* the export wrote the header and every row *)
ExportSucceeded ==
    output_file.opened /\ output_file.rows = csv_rows(bookmarks)

(* main came to call export_to_csv, and the file does not hold every row *)
WriteFailed == bm_idx > 0 /\ ~ExportSucceeded

(* the file is not there, cannot be read, or holds no JSON *)
LoadFailed == input_file \in {"missing", "removed", "unreadable", "invalid_json"}

CollectedNothing == input_file = "document" /\ bookmarks = <<>>

(* C3: main exits with 0 exactly when the export succeeded or no record was
   collected, and with another status exactly when the input file is missing
   (or cannot be read), the JSON does not parse, or writing the output
   fails; no parsed document makes the run exit with a status other than 0. *)
C3_ExitCodes ==
    (entry = "main" /\ pc = "exited") =>
        /\ exit_code = 0 <=> (ExportSucceeded \/ CollectedNothing)
        /\ exit_code # 0 <=> (LoadFailed \/ WriteFailed)

S_epoch == <<"1","6","0","1","-","0","1","-","0","1"," ","0","0",":","0","0",":","0","0">>
S_2022 == <<"2","0","2","2","-","0","6","-","1","8"," ","0","4",":","2","6",":","4","0">>

(* the shape YYYY-MM-DD HH:MM:SS *)
IsRendering(s) ==
    /\ Len(s) = 19
    /\ s[5] = "-" /\ s[8] = "-" /\ s[11] = " " /\ s[14] = ":" /\ s[17] = ":"
    /\ \A i \in (1..19) \ {5, 8, 11, 14, 17} : IsDigit(s[i])

Number(s, from, to) == DigitsValue(SubSeq(s, from, to), 0)

IsLeapYear(y) == y % 4 = 0 /\ (y % 100 # 0 \/ y % 400 = 0)

(* the leap years among the years 1..y *)
LeapYearsUpTo(y) == (y \div 4) - (y \div 100) + (y \div 400)

RECURSIVE DaysOfMonths(_, _)
DaysOfMonths(y, m) ==
    IF m = 0 THEN 0
    ELSE (IF m = 2 /\ IsLeapYear(y) THEN 29 ELSE DaysInMonth[m]) + DaysOfMonths(y, m - 1)

(* the days and seconds from 1601-01-01 00:00:00 to the date and time a
   rendering names, counted year by year and month by month *)
SinceEpoch(s) ==
    LET y == Number(s, 1, 4)
        days == DaysOfMonths(y, Number(s, 6, 7) - 1) + Number(s, 9, 10) - 1
        seconds == Number(s, 12, 13) * 3600 + Number(s, 15, 16) * 60 + Number(s, 18, 19)
    IN  [days |-> 365 * (y - 1601) + LeapYearsUpTo(y - 1) - LeapYearsUpTo(1600) + days,
         seconds |-> seconds]

HasDigit(s) == \E i \in 1..Len(s) : IsDigit(s[i])

(* C4: convert_webkit_timestamp returns for every string the rendering
   YYYY-MM-DD HH:MM:SS of 1601-01-01 00:00:00 plus the microseconds the
   string names, or else the string itself: "0" gives "1601-01-01 00:00:00",
   a string that is no number (also the empty one) and a number whose date
   cannot be represented come back unchanged. *)
C4_DecodeOrUnchanged ==
    (entry = "convert_webkit_timestamp" /\ pc = "returned") =>
        /\ result = webkit_timestamp \/ IsRendering(result)
        /\ ~HasDigit(webkit_timestamp) => result = webkit_timestamp
        /\ webkit_timestamp = S_not_a_number => result = S_not_a_number
        /\ webkit_timestamp = T_too_large => result = T_too_large
        /\ webkit_timestamp = <<"0">> => result = S_epoch
        /\ webkit_timestamp = T_2022 => result = S_2022
        /\ result # webkit_timestamp =>
              /\ int_parse(webkit_timestamp).ok
              /\ SinceEpoch(result) = timedelta_of(int_parse(webkit_timestamp))

C4_Witness ==
    /\ entry = "convert_webkit_timestamp" /\ pc = "returned"
    /\ webkit_timestamp = T_2022 /\ result = S_2022

KeysOf(bms) == UNION {DOMAIN bms[i] : i \in 1..Len(bms)}

(* C5: export_to_csv writes for a non-empty list of records a header that
   is the sorted, duplicate-free union of the keys of all records, then one
   row per record in input order, each holding the record's value in the
   columns the record has and an empty field in the others; differing key
   sets never keep it from writing. *)
C5_HeaderUnion ==
    /\ (pc = "export" /\ bookmarks # <<>>) => writable(bookmarks, Len(bookmarks))
    /\ (pc = "exported" /\ output_file.opened) =>
          LET rows == output_file.rows
              header == rows[1]
          IN  /\ \A h \in 1..(Len(header) - 1) : str_lt(header[h], header[h + 1])
              /\ {header[h] : h \in 1..Len(header)} = KeysOf(bookmarks)
              /\ Len(rows) = Len(bookmarks) + 1
              /\ \A i \in 1..Len(bookmarks) :
                    /\ Len(rows[i + 1]) = Len(header)
                    /\ \A h \in 1..Len(header) :
                          rows[i + 1][h] = IF header[h] \in DOMAIN bookmarks[i]
                                           THEN bookmarks[i][header[h]] ELSE <<>>

C5_Witness ==
    /\ entry = "export_to_csv" /\ pc = "exported" /\ Len(bookmarks) = 2
    /\ DOMAIN bookmarks[1] = {<<"a">>, <<"b">>}
    /\ DOMAIN bookmarks[2] = {<<"a">>, <<"c">>}
    /\ output_file.rows[1] = <<<<"a">>, <<"b">>, <<"c">>>>
    /\ output_file.rows[3] = <<<<"3">>, <<>>, <<"4">>>>

RequiredKeys == {S_name, S_url, S_date_added, S_date_modified, S_path}

(* C6: for a node of type "url", traverse_bookmarks appends one record; its
   keys are name, url, date_added, date_modified, path and the keys of the
   node but children; the four fields hold the node's value or the default
   "Unnamed Bookmark", "", "", ""; path is the path received; every other
   key holds the node's value. *)
C6_UrlRecord ==
    [][(entry = "traverse_bookmarks" /\ pc = "call" /\ TypeIs(node, S_url)) =>
          /\ bookmarks' = Append(bookmarks, bookmarks'[Len(bookmarks')])
          /\ LET record == bookmarks'[Len(bookmarks')]
             IN  /\ DOMAIN record = RequiredKeys \cup (DOMAIN node \ {S_children})
                 /\ record[S_name] = (IF S_name \in DOMAIN node THEN node[S_name]
                                      ELSE S_UnnamedBookmark)
                 /\ \A key \in {S_url, S_date_added, S_date_modified} :
                       record[key] = (IF key \in DOMAIN node THEN node[key] ELSE <<>>)
                 /\ record[S_path] = path
                 /\ \A key \in DOMAIN node \ (RequiredKeys \cup {S_children}) :
                       record[key] = node[key]]_vars

C6_Witness ==
    /\ entry = "traverse_bookmarks" /\ pc = "returned"
    /\ DOMAIN node = {S_type, S_url, S_path, S_children, S_tags}
    /\ node[S_type] = S_url
    /\ path = <<"A", "/", "B">>
    /\ Len(bookmarks) = 2
    /\ bookmarks[2][S_name] = S_UnnamedBookmark /\ bookmarks[2][S_path] = path

(* C8: without roots, or with an empty roots mapping, get_all_bookmarks
   returns the empty list and main ends with status 0; and while the record
   list is empty no output file is opened, neither by export_to_csv, which
   returns without error, nor in a run of main. *)
C8_EmptyNoOutput ==
    /\ (Collected /\ ~Truthy(roots_data)) => bookmarks = <<>>
    /\ (entry = "main" /\ input_file = "document" /\ ~Truthy(Get(document, S_roots, <<>>)))
          => exit_code \in {NotExited, 0}
    /\ bookmarks = <<>> => output_file = NoFile
    /\ (entry = "main" /\ pc = "exited" /\ CollectedNothing) => exit_code = 0
    /\ (entry = "export_to_csv" /\ bookmarks = <<>>) => exit_code = NotExited

C8_Witness ==
    /\ entry = "main" /\ pc = "exited" /\ exit_code = 0
    /\ S_roots \in DOMAIN data /\ data[S_roots] = <<>>
    /\ output_file = NoFile

StageOf(p) ==
    CASE p = "main" -> 0
      [] p = "load_bookmarks" -> 1
      [] p \in {"get_all_bookmarks", "for_root_key", "main_check_empty"} -> 2
      [] p = "for_bm" -> 3
      [] p = "export" -> 4
      [] p = "exported" -> 5
      [] OTHER -> 6

(* the records as get_all_bookmarks returned them, before any decoding *)
RawRecords == FlatteningOfRoots(roots_data)

(* C9: a run of main goes through load, collect, decode, export in this
   order and never back; the output file is opened only when the input was
   loaded and parsed and both timestamps of every record were decoded, the
   rows written hold the decoded values, and a run whose load failed writes
   nothing. *)
C9_StagesInOrder ==
    /\ [](entry = "main" /\ output_file.opened =>
            /\ input_file = "document" /\ data = document
            /\ bm_idx = Len(bookmarks) + 1
            /\ Len(bookmarks) = Len(RawRecords)
            /\ \A i \in 1..Len(bookmarks) :
                  \A key \in {S_date_added, S_date_modified} :
                     bookmarks[i][key] = convert_webkit_timestamp(RawRecords[i][key])
            /\ output_file.rows = SubSeq(csv_rows(bookmarks), 1, Len(output_file.rows)))
    /\ [][entry = "main" => StageOf(pc') >= StageOf(pc)]_vars

C9_Witness ==
    /\ entry = "main" /\ pc = "exited" /\ exit_code = 0 /\ output_file.opened
    /\ Len(output_file.rows) = 3
    /\ \E i \in 1..Len(bookmarks) : RawRecords[i][S_date_modified] # <<>>
                                   /\ IsRendering(bookmarks[i][S_date_modified])
    /\ \E i \in 1..Len(bookmarks) : bookmarks[i][S_date_added] = S_not_a_number

IsPrefix(a, b) == Len(a) <= Len(b) /\ a = SubSeq(b, 1, Len(a))

(* C10: a call of traverse_bookmarks only appends to the accumulator, the
   records it held stay as they were, in front; the input tree is never
   changed; decoding the timestamps in main changes date_added and
   date_modified of the records and nothing else. *)
C10_OnlyAppends ==
    [][/\ (pc = "for_root_key" \/ entry = "traverse_bookmarks") => IsPrefix(bookmarks, bookmarks')
       /\ document' = document /\ node' = node
       /\ pc # "load_bookmarks" => data' = data
       /\ pc = "for_bm" =>
             /\ Len(bookmarks') = Len(bookmarks)
             /\ \A i \in 1..Len(bookmarks) :
                   /\ DOMAIN bookmarks'[i] = DOMAIN bookmarks[i]
                   /\ \A key \in DOMAIN bookmarks[i] \ {S_date_added, S_date_modified} :
                         bookmarks'[i][key] = bookmarks[i][key]]_vars

C10_Witness ==
    /\ entry = "traverse_bookmarks" /\ pc = "returned"
    /\ TypeIs(node, S_folder)
    /\ Len(bookmarks) >= 3

====
